---- MODULE Spec2Model ----
(***************************************************************************)
(* Model of the two programs of the repository:                            *)
(*   gemini_cli.py   - the REST client (`text` subcommand, cmd_text)       *)
(*   summarize_ai.py - the SDK client (main, summarize_with_openai,        *)
(*                     summarize_with_gemini, get_summary_prompt)          *)
(* A Python string is a sequence of chunks (single characters, or an       *)
(* opaque block standing for a fixed literal of the source).  Python's     *)
(* None is the one-chunk sequence None, which no program string equals.    *)
(***************************************************************************)
EXTENDS Integers, Sequences, FiniteSets, TLC

\* ---------------------------------------------------------------- bounds
\* longest `parts` list of a generateContent response
MaxParts == 2
\* longest `models` list of a model-list response
MaxModels == 2

\* ------------------------------------------------------- Python helpers
None == <<"<None>">>
Absent == <<"<absent>">>
Unreadable == <<"<unreadable>">>
Running == -1

Whitespace == {" ", "\n"}

RECURSIVE LStrip(_)
LStrip(s) == IF s # <<>> /\ Head(s) \in Whitespace THEN LStrip(Tail(s)) ELSE s

RECURSIVE RStrip(_)
RStrip(s) ==
    IF s # <<>> /\ s[Len(s)] \in Whitespace
    THEN RStrip(SubSeq(s, 1, Len(s) - 1))
    ELSE s

\* str.strip()
Strip(s) == RStrip(LStrip(s))

\* truth value of an optional string: None and "" are false
Truthy(v) == v # None /\ v # <<>>

\* a or b
PyOr(a, b) == IF Truthy(a) THEN a ELSE b

\* os.getenv(name, default)
Getenv(e, name, default) == IF e[name] = None THEN default ELSE e[name]

\* sub in s
Contains(s, sub) ==
    \E i \in 0..(Len(s) - Len(sub)) : SubSeq(s, i + 1, i + Len(sub)) = sub

\* x in list
InList(x, l) == \E i \in DOMAIN l : l[i] = x

\* d.get(k, default)
DictGet(d, k, default) == IF k \in DOMAIN d THEN d[k] ELSE default

\* "".join(list)
RECURSIVE Join(_)
Join(ss) == IF ss = <<>> THEN <<>> ELSE Head(ss) \o Join(Tail(ss))

LowerChunk(c) ==
    CASE c = "CLASSIC" -> "classic"
      [] c = "OpenAI" -> "openai"
      [] c = "Gemini" -> "gemini"
      [] OTHER -> c

\* str.lower()
Lower(s) == [i \in DOMAIN s |-> LowerChunk(s[i])]

\* sequences over S of length at most n
SeqsUpTo(S, n) == UNION {[1..k -> S] : k \in 0..n}

\* ----------------------------------------------------- prompt assembly
script_dir == <<"/", "s">>

\* os.path.isabs
IsAbs(p) == p # <<>> /\ Head(p) = "/"

\* the file SUMMARY_PROMPT_FILE names, relative paths under script_dir
ResolvePromptFile(prompt_file) ==
    IF IsAbs(prompt_file) THEN prompt_file ELSE script_dir \o <<"/">> \o prompt_file

\* os.path.exists over the modelled file system
Exists(f, p) == p \in DOMAIN f /\ f[p] # Absent

\* the stripped content of the prompt file; None when SUMMARY_PROMPT_FILE is
\* blank, the file is missing, or reading it raises
ReadPromptFile(e, f) ==
    LET prompt_file == Strip(Getenv(e, "SUMMARY_PROMPT_FILE", <<>>))
        path == ResolvePromptFile(prompt_file)
    IN  IF prompt_file # <<>> /\ Exists(f, path) /\ f[path] # Unreadable
        THEN Strip(f[path])
        ELSE None

\* the warning printed when reading the prompt file raises
PromptFileWarning(e, f) ==
    LET prompt_file == Strip(Getenv(e, "SUMMARY_PROMPT_FILE", <<>>))
        path == ResolvePromptFile(prompt_file)
    IN  IF prompt_file # <<>> /\ Exists(f, path) /\ f[path] = Unreadable
        THEN << <<"Warning: Could not read SUMMARY_PROMPT_FILE ">> \o path >>
        ELSE <<>>

classic_preface == <<"<classic preface>">>
concise_preface == <<"<concise preface>">>

\* CliFullPrompt with the lookups swapped: SUMMARY_PROMPT is read before the file
CliFullPrompt_EnvFirst(e, f, prompt_text) ==
    LET fromEnv == Strip(Getenv(e, "SUMMARY_PROMPT", <<>>))
        fromFile == ReadPromptFile(e, f)
        custom_prompt ==
            IF fromEnv # <<>> THEN fromEnv
            ELSE IF Truthy(fromFile) THEN fromFile ELSE <<>>
        style == Lower(PyOr(e["PROMPT_STYLE"], PyOr(e["SUMMARY_STYLE"], <<"classic">>)))
        system_preface ==
            IF style = <<"classic">> THEN classic_preface ELSE concise_preface
    IN  IF custom_prompt # <<>>
        THEN custom_prompt \o <<"\n", "\n">> \o prompt_text
        ELSE system_preface \o <<"\n", "\n">> \o prompt_text

\* gemini_cli: full_prompt of cmd_text
CliFullPrompt(e, f, prompt_text) ==
    LET fromFile == ReadPromptFile(e, f)
        custom_prompt ==
            IF Truthy(fromFile) THEN fromFile
            ELSE Strip(Getenv(e, "SUMMARY_PROMPT", <<>>))
        style == Lower(PyOr(e["PROMPT_STYLE"], PyOr(e["SUMMARY_STYLE"], <<"classic">>)))
        system_preface ==
            IF style = <<"classic">> THEN classic_preface ELSE concise_preface
    IN  IF custom_prompt # <<>>
        THEN custom_prompt \o <<"\n", "\n">> \o prompt_text
        ELSE system_preface \o <<"\n", "\n">> \o prompt_text

default_prompt == <<"<default prompt>", "\n", "\n">>

\* summarize_ai: get_summary_prompt
get_summary_prompt(e, f, t) ==
    LET fromFile == ReadPromptFile(e, f)
        custom_prompt == Strip(Getenv(e, "SUMMARY_PROMPT", <<>>))
    IN  IF Truthy(fromFile) THEN fromFile \o <<"\n", "\n">> \o t
        ELSE IF custom_prompt # <<>> THEN custom_prompt \o <<"\n", "\n">> \o t
        ELSE default_prompt \o t

system_message == <<"<system message>">>

\* summarize_ai: the messages summarize_with_openai sends
OpenAIMessages(e, prompt) ==
    IF Strip(Getenv(e, "SUMMARY_PROMPT", <<>>)) # <<>>
    THEN << [role |-> "user", content |-> prompt] >>
    ELSE << [role |-> "system", content |-> system_message],
            [role |-> "user", content |-> prompt] >>

\* ------------------------------------------------- HTTP responses (REST)
\* a part of a candidate's content: with a text fragment, or without one
PartTexts == {<<>>, <<" ">>, <<"a">>, <<"b", "\n">>}
Parts == [text : PartTexts] \cup {[inlineData |-> <<"x">>]}

\* JSON bodies of a 200 generateContent response
GenBodies ==
    {[candidates |-> << [content |-> [parts |-> ps]] >>] : ps \in SeqsUpTo(Parts, MaxParts)}
    \cup {[candidates |-> <<>>], [error |-> <<"e">>],
          [candidates |-> << [finishReason |-> <<"SAFETY">>] >>]}

\* what requests.post gives: an exception, a non-200 status, a 200 whose body is
\* not JSON, a 200 with a JSON body
PostOutcomes ==
    {[kind |-> "raise"], [kind |-> "http", status |-> 404], [kind |-> "http", status |-> 500],
     [kind |-> "http", status |-> 200, valid |-> FALSE]}
    \cup {[kind |-> "http", status |-> 200, valid |-> TRUE, data |-> d] : d \in GenBodies}

\* r.json() raises outside the try block
JsonRaises(r) == r.kind = "http" /\ r.status = 200 /\ ~r.valid

\* data["candidates"][0]["content"]["parts"] is there
HasParts(data) ==
    /\ "candidates" \in DOMAIN data
    /\ Len(data.candidates) >= 1
    /\ "content" \in DOMAIN data.candidates[1]
    /\ "parts" \in DOMAIN data.candidates[1].content

\* CallResult without the final strip()
CallResult_NoStrip(r) ==
    IF r.status # 200
    THEN [text |-> None, err |-> <<"HTTP ", ToString(r.status)>>]
    ELSE IF HasParts(r.data)
         THEN LET parts == r.data.candidates[1].content.parts
                  texts == [i \in DOMAIN parts |-> DictGet(parts[i], "text", <<>>)]
              IN  [text |-> Join(texts), err |-> None]
         ELSE [text |-> None, err |-> <<"Parse error">>]

\* the (text, err) pair call_model_v1 and call_model_v1beta return on a response
CallResult(r) ==
    IF r.status # 200
    THEN [text |-> None, err |-> <<"HTTP ", ToString(r.status)>>]
    ELSE IF HasParts(r.data)
         THEN LET parts == r.data.candidates[1].content.parts
                  texts == [i \in DOMAIN parts |-> DictGet(parts[i], "text", <<>>)]
              IN  [text |-> Strip(Join(texts)), err |-> None]
         ELSE [text |-> None, err |-> <<"Parse error">>]

\* ------------------------------------------------------ model discovery
ModelNames ==
    {<<"models/", "gemini-1.5", "-pro">>, <<"models/", "gemini-2.0", "-", "flash">>,
     <<"models/", "embedding-001">>}
MethodLists == {<<"generateContent">>, <<"embedContent">>}
ModelEntries ==
    [name : ModelNames, supportedGenerationMethods : MethodLists]
    \cup {[name |-> <<"models/", "gemini-1.5", "-pro">>],
          [supportedGenerationMethods |-> <<"generateContent">>]}

ListOutcomes ==
    {[kind |-> "raise"], [kind |-> "http", status |-> 403],
     [kind |-> "http", status |-> 200, valid |-> FALSE],
     [kind |-> "http", status |-> 200, valid |-> TRUE, data |-> [error |-> <<"e">>]]}
    \cup {[kind |-> "http", status |-> 200, valid |-> TRUE, data |-> [models |-> ms]] :
            ms \in SeqsUpTo(ModelEntries, MaxModels)}

\* Suitable with the "flash" hint forgotten
Suitable_NoFlash(m) ==
    LET name == DictGet(m, "name", <<>>)
        methods == DictGet(m, "supportedGenerationMethods", <<>>)
    IN  /\ InList("generateContent", methods)
        /\ Contains(name, <<"gemini-1.5">>)

\* the condition of the discovery loop on one entry
Suitable(m) ==
    LET name == DictGet(m, "name", <<>>)
        methods == DictGet(m, "supportedGenerationMethods", <<>>)
    IN  /\ InList("generateContent", methods)
        /\ (Contains(name, <<"gemini-1.5">>) \/ Contains(name, <<"flash">>))

\* Preferred without the test: the first named entry
RECURSIVE Preferred_AnyNamed(_)
Preferred_AnyNamed(ms) ==
    IF ms = <<>> THEN None
    ELSE IF DictGet(Head(ms), "name", <<>>) # <<>> THEN DictGet(Head(ms), "name", <<>>)
    ELSE Preferred_AnyNamed(Tail(ms))

\* the discovery loop: the name of the first suitable entry, None if there is none
RECURSIVE Preferred(_)
Preferred(ms) ==
    IF ms = <<>> THEN None
    ELSE IF Suitable(Head(ms)) THEN DictGet(Head(ms), "name", <<>>)
    ELSE Preferred(Tail(ms))

\* ---------------------------------------------------------------- state
VARIABLES
    prog,           \* which script runs: "gemini_cli" or "summarize_ai"
    env,            \* os.environ, after .env is loaded
    fs,             \* the files the prompt-file lookup can see
    args,           \* the parsed command line
    stdin,          \* what sys.stdin.read() returns
    sdk_installed,  \* whether the provider's SDK can be imported
    pc,             \* position of the run
    api_key, model_name, full_prompt, messages,
    text, err, err2,
    r_v1,           \* the response of the primary generateContent call
    lr,             \* the response of the model-list call
    preferred,
    requests,       \* outbound calls issued so far, in order
    inflight,       \* outbound calls issued and not yet answered
    stdout, stderr, exitStatus

vars == <<prog, env, fs, args, stdin, sdk_installed, pc, api_key, model_name,
          full_prompt, messages, text, err, err2, r_v1, lr, preferred,
          requests, inflight, stdout, stderr, exitStatus>>

inputs == <<prog, env, fs, args, stdin, sdk_installed>>
locals == <<api_key, model_name, full_prompt, messages, text, err, err2, r_v1, lr, preferred>>

\* -------------------------------------------------------------- inputs
EnvNames ==
    {"GEMINI_API_KEY", "GOOGLE_API_KEY", "OPENAI_API_KEY", "SUMMARY_PROMPT_FILE",
     "SUMMARY_PROMPT", "PROMPT_STYLE", "SUMMARY_STYLE"}

\* the two places a prompt file can be: an absolute path, a path under script_dir
PromptPaths == {<<"/", "p">>, script_dir \o <<"/", "p">>}
NoFiles == [p \in PromptPaths |-> Absent]

MkEnv(gem, goo, oai, pfile, sprompt, pstyle, sstyle) ==
    [n \in EnvNames |->
        CASE n = "GEMINI_API_KEY" -> gem
          [] n = "GOOGLE_API_KEY" -> goo
          [] n = "OPENAI_API_KEY" -> oai
          [] n = "SUMMARY_PROMPT_FILE" -> pfile
          [] n = "SUMMARY_PROMPT" -> sprompt
          [] n = "PROMPT_STYLE" -> pstyle
          [] n = "SUMMARY_STYLE" -> sstyle]

\* runs of gemini_cli `text`: every key setting, with and without --model
CliScenarios ==
    {[prog |-> "gemini_cli",
      env |-> MkEnv(gem, goo, None, None, None, None, None),
      fs |-> NoFiles,
      args |-> [model |-> m, input |-> <<"-">>, provider |-> <<>>],
      stdin |-> <<"t">>,
      sdk_installed |-> TRUE] :
        gem \in {None, <<>>, <<"k1">>}, goo \in {None, <<"k2">>},
        m \in {<<>>, <<"gemini-pro">>}}

\* runs of summarize_ai: every provider and key setting
AiScenarios ==
    {[prog |-> "summarize_ai",
      env |-> MkEnv(gem, goo, oai, None, sp, None, None),
      fs |-> NoFiles,
      args |-> [model |-> m, input |-> <<"-">>, provider |-> pv],
      stdin |-> <<"t">>,
      sdk_installed |-> sdk] :
        gem \in {None, <<>>, <<"k1">>}, goo \in {None, <<"k2">>},
        oai \in {None, <<>>, <<"k3">>}, sp \in {None, <<"q">>},
        m \in {<<>>, <<"m">>},
        pv \in {<<"openai">>, <<"OpenAI">>, <<"gemini">>, <<"none">>, <<"bogus">>, <<>>},
        sdk \in BOOLEAN}

\* runs with the credentials in place and every setting of the prompt variables
FileVarValues == {None, <<" ">>, <<"p">>, <<" ", "p">>, <<"/", "p">>, <<"z">>}
FileStates == {Absent, Unreadable, <<>>, <<"\n">>, <<"c">>, <<" ", "c", "\n">>}
PromptVarValues == {None, <<>>, <<" ">>, <<"q">>, <<"q", " ">>}
StyleValues == {None, <<>>, <<"classic">>, <<"CLASSIC">>, <<"brief">>}

PromptScenarios ==
    {[prog |-> pg[1],
      env |-> MkEnv(<<"k1">>, None, <<"k3">>, pf, sp, ps, ss),
      fs |-> f,
      args |-> [model |-> <<>>, input |-> inp, provider |-> pg[2]],
      stdin |-> <<"t">>,
      sdk_installed |-> TRUE] :
        pg \in {<<"gemini_cli", <<>>>>, <<"summarize_ai", <<"openai">>>>,
                <<"summarize_ai", <<"gemini">>>>},
        pf \in FileVarValues, f \in [PromptPaths -> FileStates],
        sp \in PromptVarValues, ps \in StyleValues, ss \in {None, <<"brief">>},
        inp \in {<<"-">>, <<"u">>}}

InitFrom(S) ==
    /\ \E sc \in S :
        /\ prog = sc.prog
        /\ env = sc.env
        /\ fs = sc.fs
        /\ args = sc.args
        /\ stdin = sc.stdin
        /\ sdk_installed = sc.sdk_installed
    /\ pc = "start"
    /\ api_key = None
    /\ model_name = None
    /\ full_prompt = None
    /\ messages = <<>>
    /\ text = None
    /\ err = None
    /\ err2 = None
    /\ r_v1 = [kind |-> "none"]
    /\ lr = [kind |-> "none"]
    /\ preferred = None
    /\ requests = <<>>
    /\ inflight = 0
    /\ stdout = <<>>
    /\ stderr = <<>>
    /\ exitStatus = Running

Init == InitFrom(CliScenarios \cup AiScenarios)

InitPrompt == InitFrom(PromptScenarios)

\* ------------------------------------------------------------ process exit
\* exit status of sys.exit(2) in ensure_api_key
MissingKeyExit == 2
\* exit status of `return 1` in cmd_text
FailureExit == 1
\* exit status of `return 0`
SuccessExit == 0
\* exit status Python gives a run ended by an uncaught exception or SystemExit(str)
UncaughtExit == 1

\* the run ends with `status` after writing `msgs` to standard error
Exit(status, msgs) ==
    /\ pc' = "done"
    /\ exitStatus' = status
    /\ stderr' = stderr \o msgs

\* an exception nobody catches: traceback on standard error, exit status 1
Crash(what) == Exit(UncaughtExit, << <<"Traceback: ">> \o what >>)

\* -------------------------------------------------------------- gemini_cli
\* ensure_api_key: the key, or None when the run must exit
ensure_api_key(e) == PyOr(e["GEMINI_API_KEY"], e["GOOGLE_API_KEY"])

FailedMsg(e1, rest) == <<"Gemini REST call failed: ">> \o e1 \o <<" | ">> \o rest

V1Url(m) == <<"v1/models/">> \o m \o <<":generateContent">>
V1betaUrl(full_model_name) == <<"v1beta/">> \o full_model_name \o <<":generateContent">>
ListUrl == <<"v1beta/models">>

\* cmd_text up to the first call: credentials, model name, input, prompt
cmd_text_begin ==
    /\ pc = "start"
    /\ prog = "gemini_cli"
    /\ LET key == ensure_api_key(env)
           prompt_text == IF args.input = <<"-">> THEN stdin ELSE args.input
       IN  IF ~Truthy(key)
           THEN /\ Exit(MissingKeyExit, << <<"GEMINI_API_KEY (or GOOGLE_API_KEY) is required">> >>)
                /\ UNCHANGED <<locals, requests, inflight, stdout>>
           ELSE /\ api_key' = key
                /\ model_name' = PyOr(args.model, <<"gemini-1.5", "-", "flash">>)
                /\ full_prompt' = CliFullPrompt(env, fs, prompt_text)
                /\ stderr' = stderr \o PromptFileWarning(env, fs)
                /\ pc' = "call_v1"
                /\ UNCHANGED <<messages, text, err, err2, r_v1, lr, preferred,
                               requests, inflight, stdout, exitStatus>>
    /\ UNCHANGED inputs

\* call_model_v1: requests.post
call_model_v1_post ==
    /\ pc = "call_v1"
    /\ requests' = Append(requests,
          [method |-> "POST", url |-> V1Url(model_name), key |-> api_key,
           body |-> full_prompt])
    /\ inflight' = inflight + 1
    /\ pc' = "wait_v1"
    /\ UNCHANGED <<inputs, locals, stdout, stderr, exitStatus>>

\* call_model_v1: the response arrives and is parsed
call_model_v1_return ==
    /\ pc = "wait_v1"
    /\ \E r \in PostOutcomes :
        /\ r_v1' = r
        /\ inflight' = inflight - 1
        /\ IF r.kind = "raise"
           THEN Crash(<<"requests.post">>) /\ UNCHANGED <<text, err>>
           ELSE IF JsonRaises(r)
           THEN Crash(<<"JSONDecodeError">>) /\ UNCHANGED <<text, err>>
           ELSE /\ text' = CallResult(r).text
                /\ err' = CallResult(r).err
                /\ pc' = "after_v1"
                /\ UNCHANGED <<stderr, exitStatus>>
    /\ UNCHANGED <<inputs, api_key, model_name, full_prompt, messages, err2, lr,
                   preferred, requests, stdout>>

\* list_models_get without the test of text
list_models_get_Unguarded ==
    /\ pc = "after_v1"
    /\ requests' = Append(requests, [method |-> "GET", url |-> ListUrl, key |-> api_key])
    /\ inflight' = inflight + 1
    /\ pc' = "wait_list"
    /\ UNCHANGED <<inputs, locals, stdout, stderr, exitStatus>>

\* the primary call gave no text: requests.get of the model list
list_models_get ==
    /\ pc = "after_v1"
    /\ text = None
    /\ requests' = Append(requests, [method |-> "GET", url |-> ListUrl, key |-> api_key])
    /\ inflight' = inflight + 1
    /\ pc' = "wait_list"
    /\ UNCHANGED <<inputs, locals, stdout, stderr, exitStatus>>

\* the model list arrives: pick the preferred model, or give up
list_models_return ==
    /\ pc = "wait_list"
    /\ \E r \in ListOutcomes :
        /\ lr' = r
        /\ inflight' = inflight - 1
        /\ IF r.kind = "raise"
           THEN Crash(<<"requests.get">>) /\ UNCHANGED preferred
           ELSE IF r.status # 200
           THEN /\ Exit(FailureExit,
                        << FailedMsg(err, <<"list models HTTP ", ToString(r.status)>>) >>)
                /\ UNCHANGED preferred
           ELSE IF JsonRaises(r)
           THEN Crash(<<"JSONDecodeError">>) /\ UNCHANGED preferred
           ELSE /\ preferred' = Preferred(DictGet(r.data, "models", <<>>))
                /\ IF Truthy(preferred')
                   THEN pc' = "call_v1beta" /\ UNCHANGED <<stderr, exitStatus>>
                   ELSE Exit(FailureExit, << FailedMsg(err, <<"no suitable model found">>) >>)
    /\ UNCHANGED <<inputs, api_key, model_name, full_prompt, messages, text, err,
                   err2, r_v1, requests, stdout>>

\* call_model_v1beta: requests.post to the discovered model
call_model_v1beta_post ==
    /\ pc = "call_v1beta"
    /\ requests' = Append(requests,
          [method |-> "POST", url |-> V1betaUrl(preferred), key |-> api_key,
           body |-> full_prompt])
    /\ inflight' = inflight + 1
    /\ pc' = "wait_v1beta"
    /\ UNCHANGED <<inputs, locals, stdout, stderr, exitStatus>>

\* call_model_v1beta_return that tries the discovered model again on failure
call_model_v1beta_return_Retry ==
    /\ pc = "wait_v1beta"
    /\ \E r \in PostOutcomes :
        /\ inflight' = inflight - 1
        /\ IF r.kind = "raise"
           THEN Crash(<<"requests.post">>) /\ UNCHANGED <<text, err2>>
           ELSE IF JsonRaises(r)
           THEN Crash(<<"JSONDecodeError">>) /\ UNCHANGED <<text, err2>>
           ELSE /\ text' = CallResult(r).text
                /\ err2' = CallResult(r).err
                /\ IF text' = None
                   THEN pc' = "call_v1beta" /\ UNCHANGED <<stderr, exitStatus>>
                   ELSE pc' = "after_v1beta" /\ UNCHANGED <<stderr, exitStatus>>
    /\ UNCHANGED <<inputs, api_key, model_name, full_prompt, messages, err, r_v1, lr,
                   preferred, requests, stdout>>

\* call_model_v1beta: the response arrives and is parsed
call_model_v1beta_return ==
    /\ pc = "wait_v1beta"
    /\ \E r \in PostOutcomes :
        /\ inflight' = inflight - 1
        /\ IF r.kind = "raise"
           THEN Crash(<<"requests.post">>) /\ UNCHANGED <<text, err2>>
           ELSE IF JsonRaises(r)
           THEN Crash(<<"JSONDecodeError">>) /\ UNCHANGED <<text, err2>>
           ELSE /\ text' = CallResult(r).text
                /\ err2' = CallResult(r).err
                /\ IF text' = None
                   THEN Exit(FailureExit, << FailedMsg(err, err2') >>)
                   ELSE pc' = "after_v1beta" /\ UNCHANGED <<stderr, exitStatus>>
    /\ UNCHANGED <<inputs, api_key, model_name, full_prompt, messages, err, r_v1, lr,
                   preferred, requests, stdout>>

\* sys.stdout.write(text); return 0
write_stdout ==
    /\ pc \in {"after_v1", "after_v1beta"}
    /\ text # None
    /\ stdout' = Append(stdout, text)
    /\ Exit(SuccessExit, <<>>)
    /\ UNCHANGED <<inputs, locals, requests, inflight>>

\* ------------------------------------------------------------ summarize_ai
\* what an SDK call gives: an exception, or a response with or without text
SdkOutcomes ==
    {[kind |-> "raise"]}
    \cup {[kind |-> "ok", text |-> t] : t \in {None, <<>>, <<" ">>, <<"a">>, <<"a", "\n">>}}

\* print(x)
PrintLine(x) == Append(stdout, x \o <<"\n">>)

\* the API key summarize_with_openai reads
openai_api_key(e) == e["OPENAI_API_KEY"]

\* the API key summarize_with_gemini reads
gemini_api_key(e) == PyOr(e["GEMINI_API_KEY"], e["GOOGLE_API_KEY"])

\* main of summarize_ai up to the SDK call: provider dispatch, credentials, prompt
ai_main ==
    /\ pc = "start"
    /\ prog = "summarize_ai"
    /\ LET provider == Lower(PyOr(args.provider, <<>>))
           prompt == get_summary_prompt(env, fs, stdin)
       IN  IF provider \in {<<"none">>, <<"off">>, <<"disabled">>}
           THEN /\ stdout' = PrintLine(stdin)
                /\ Exit(SuccessExit, <<>>)
                /\ UNCHANGED <<locals, requests, inflight>>
           ELSE IF provider = <<"openai">>
           THEN IF ~sdk_installed
                THEN /\ Crash(<<"RuntimeError: OpenAI SDK not installed">>)
                     /\ UNCHANGED <<locals, requests, inflight, stdout>>
                ELSE IF ~Truthy(openai_api_key(env))
                THEN /\ Crash(<<"RuntimeError: OPENAI_API_KEY is required for provider=openai">>)
                     /\ UNCHANGED <<locals, requests, inflight, stdout>>
                ELSE /\ api_key' = openai_api_key(env)
                     /\ model_name' = PyOr(args.model, <<"gpt-4o-mini">>)
                     /\ full_prompt' = prompt
                     /\ messages' = OpenAIMessages(env, prompt)
                     /\ stderr' = stderr \o PromptFileWarning(env, fs)
                     /\ requests' = Append(requests,
                           [method |-> "SDK", url |-> <<"openai">>, key |-> api_key',
                            body |-> messages'])
                     /\ inflight' = inflight + 1
                     /\ pc' = "wait_openai"
                     /\ UNCHANGED <<text, err, err2, r_v1, lr, preferred, stdout, exitStatus>>
           ELSE IF provider = <<"gemini">>
           THEN IF ~sdk_installed
                THEN /\ Crash(<<"RuntimeError: google-generativeai not installed">>)
                     /\ UNCHANGED <<locals, requests, inflight, stdout>>
                ELSE IF ~Truthy(gemini_api_key(env))
                THEN /\ Crash(<<"RuntimeError: GEMINI_API_KEY (or GOOGLE_API_KEY) is required for provider=gemini">>)
                     /\ UNCHANGED <<locals, requests, inflight, stdout>>
                ELSE /\ api_key' = gemini_api_key(env)
                     /\ model_name' = PyOr(PyOr(args.model, <<"gemini-1.5", "-", "flash", "-latest">>),
                                           <<"gemini-1.5", "-", "flash">>)
                     /\ full_prompt' = prompt
                     /\ stderr' = stderr \o PromptFileWarning(env, fs)
                     /\ requests' = Append(requests,
                           [method |-> "SDK", url |-> <<"gemini">>, key |-> api_key',
                            body |-> prompt])
                     /\ inflight' = inflight + 1
                     /\ pc' = "wait_gemini"
                     /\ UNCHANGED <<messages, text, err, err2, r_v1, lr, preferred, stdout,
                                    exitStatus>>
           ELSE /\ Exit(UncaughtExit, << <<"Unknown provider: ">> \o provider >>)
                /\ UNCHANGED <<locals, requests, inflight, stdout>>
    /\ UNCHANGED inputs

\* summarize_with_openai: the completion arrives; main prints it
openai_return ==
    /\ pc = "wait_openai"
    /\ \E r \in SdkOutcomes :
        /\ inflight' = inflight - 1
        /\ IF r.kind = "raise"
           THEN Crash(<<"openai">>) /\ UNCHANGED <<text, stdout>>
           ELSE IF r.text = None
           THEN Crash(<<"AttributeError">>) /\ UNCHANGED <<text, stdout>>
           ELSE /\ text' = Strip(r.text)
                /\ stdout' = PrintLine(text')
                /\ Exit(SuccessExit, <<>>)
    /\ UNCHANGED <<inputs, api_key, model_name, full_prompt, messages, err, err2, r_v1, lr,
                   preferred, requests>>

\* summarize_with_gemini: the response arrives; main prints it
gemini_return ==
    /\ pc = "wait_gemini"
    /\ \E r \in SdkOutcomes :
        /\ inflight' = inflight - 1
        /\ IF r.kind = "raise"
           THEN Crash(<<"google.generativeai">>) /\ UNCHANGED <<text, stdout>>
           ELSE IF ~Truthy(r.text)
           THEN Crash(<<"RuntimeError: Gemini returned empty response">>)
                /\ UNCHANGED <<text, stdout>>
           ELSE /\ text' = Strip(r.text)
                /\ stdout' = PrintLine(text')
                /\ Exit(SuccessExit, <<>>)
    /\ UNCHANGED <<inputs, api_key, model_name, full_prompt, messages, err, err2, r_v1, lr,
                   preferred, requests>>

\* ---------------------------------------------------------- specifications
Next ==
    \/ cmd_text_begin
    \/ call_model_v1_post
    \/ call_model_v1_return
    \/ list_models_get
    \/ list_models_return
    \/ call_model_v1beta_post
    \/ call_model_v1beta_return
    \/ write_stdout
    \/ ai_main
    \/ openai_return
    \/ gemini_return

\* both programs, every credential setting, every network outcome
Spec == Init /\ [][Next]_vars

\* both programs up to their first outbound call, every prompt setting
NextPrompt ==
    \/ cmd_text_begin
    \/ call_model_v1_post
    \/ ai_main

SpecPrompt == InitPrompt /\ [][NextPrompt]_vars

\* ------------------------------------------------------------ properties
\* Vocabulary of the properties, stated over the inputs, the responses received
\* and the observable effects (requests, stdout, stderr, exit status).
Done == pc = "done"
IsCli == prog = "gemini_cli"
IsAi == prog = "summarize_ai"

Falsy(v) == v = None \/ v = <<>>
GeminiKeyMissing == Falsy(env["GEMINI_API_KEY"]) /\ Falsy(env["GOOGLE_API_KEY"])
OpenAIKeyMissing == Falsy(env["OPENAI_API_KEY"])
ProviderIs(p) == IsAi /\ sdk_installed /\ Lower(args.provider) = p

\* the provider the run selected needs a key that is unset or empty
RequiredKeyMissing ==
    \/ IsCli /\ GeminiKeyMissing
    \/ ProviderIs(<<"gemini">>) /\ GeminiKeyMissing
    \/ ProviderIs(<<"openai">>) /\ OpenAIKeyMissing

IsGet(q) == q.method = "GET"
IsV1Post(q) == q.method = "POST" /\ SubSeq(q.url, 1, 1) = <<"v1/models/">>
IsV1betaPost(q) == q.method = "POST" /\ SubSeq(q.url, 1, 1) = <<"v1beta/">>
Count(P(_)) == Cardinality({i \in DOMAIN requests : P(requests[i])})

\* the primary call was answered
PrimaryAnswered == r_v1.kind = "http"
\* ... with status 200 and a body of shape candidates[0].content.parts
PrimaryHasParts ==
    /\ PrimaryAnswered
    /\ r_v1.status = 200
    /\ r_v1.valid
    /\ HasParts(r_v1.data)
\* ... with a non-200 status or a JSON body of another shape
PrimaryNoText ==
    /\ PrimaryAnswered
    /\ \/ r_v1.status # 200
       \/ r_v1.valid /\ ~HasParts(r_v1.data)

\* the models the listing endpoint returned with status 200
ListAnswered200 == lr.kind = "http" /\ lr.status = 200 /\ lr.valid
ListedModels == IF "models" \in DOMAIN lr.data THEN lr.data.models ELSE <<>>

\* an entry the discovery may pick
IsMatch(m) ==
    /\ "supportedGenerationMethods" \in DOMAIN m
    /\ \E i \in DOMAIN m.supportedGenerationMethods :
          m.supportedGenerationMethods[i] = "generateContent"
    /\ "name" \in DOMAIN m
    /\ \E i \in DOMAIN m.name : m.name[i] \in {"gemini-1.5", "flash"}

\* in-order concatenation of the text fields of a parts list
RECURSIVE ConcatTexts(_)
ConcatTexts(ps) ==
    IF ps = <<>> THEN <<>>
    ELSE (IF "text" \in DOMAIN Head(ps) THEN Head(ps).text ELSE <<>>) \o ConcatTexts(Tail(ps))

\* a message on standard error that carries the error e
Reported(e) == \E i \in DOMAIN stderr : Contains(stderr[i], e)
Traceback == \E i \in DOMAIN stderr : Head(stderr[i]) = "Traceback: "

\* the prompt file the environment names, when it is readable: its content
NamedPromptFile ==
    LET v == IF env["SUMMARY_PROMPT_FILE"] = None THEN <<>> ELSE Strip(env["SUMMARY_PROMPT_FILE"])
    IN  IF v = <<>> THEN None
        ELSE IF Head(v) = "/" THEN v
        ELSE script_dir \o <<"/">> \o v
FileOverride ==
    /\ NamedPromptFile \in DOMAIN fs
    /\ fs[NamedPromptFile] \notin {Absent, Unreadable}
    /\ Strip(fs[NamedPromptFile]) # <<>>
EnvOverride ==
    /\ env["SUMMARY_PROMPT"] # None
    /\ Strip(env["SUMMARY_PROMPT"]) # <<>>
InputText == IF IsCli /\ args.input # <<"-">> THEN args.input ELSE stdin
BuiltIns ==
    IF IsCli THEN {classic_preface \o <<"\n", "\n">>, concise_preface \o <<"\n", "\n">>}
    ELSE {default_prompt}
\* the prompt the first outbound call carries
SentPrompt ==
    LET b == requests[1].body
    IN  IF requests[1].url = <<"openai">> THEN b[Len(b)].content ELSE b

\* C1: when the API key the selected provider needs is unset or empty, the run
\* ends with exit status 2 and makes no outbound call (gemini_cli `text`, and
\* summarize_ai with provider gemini or openai).
C1_MissingKeyExits2 ==
    (Done /\ RequiredKeyMissing) => (exitStatus = 2 /\ requests = <<>>)

\* C2 as claimed: gemini_cli `text` issues at most two outbound requests, one
\* after another.
C2_AtMostTwoRequests ==
    IsCli => (Len(requests) <= 2 /\ inflight <= 1)

\* C2 as amended: gemini_cli `text` issues at most three outbound requests (at most
\* two generateContent POSTs and at most one model-list GET), and never has more
\* than one of them outstanding.
C2_AtMostThreeRequests ==
    IsCli =>
        /\ Len(requests) <= 3
        /\ Count(IsV1Post) <= 1
        /\ Count(IsV1betaPost) <= 1
        /\ Count(IsGet) <= 1
        /\ inflight \in {0, 1}
        /\ (pc \in {"wait_v1", "wait_list", "wait_v1beta"} <=> inflight = 1)

C2_Witness ==
    IsCli /\ Done /\ Len(requests) = 3 /\ inflight = 0

\* C3: in gemini_cli every failed outbound call is reported on standard error
\* before the run ends; no run ends with exit status 0 after a failed primary
\* call that was not reported.
C3_FailuresReported ==
    (IsCli /\ Done) =>
        /\ (PrimaryNoText => (Reported(err) \/ Traceback))
        /\ ((lr.kind = "http" /\ lr.status # 200) => Reported(<<"list models HTTP ">>))
        /\ (err2 # None => Reported(err2))

\* C4: the model list is requested if and only if the primary call produced no
\* text, and after it; the fallback call is issued only after a 200 model-list
\* response holding a matching model, and at most once.
C4_FallbackOrder ==
    IsCli =>
        /\ (Count(IsGet) >= 1 =>
               PrimaryNoText /\ Len(requests) >= 2 /\ IsV1Post(requests[1]) /\ IsGet(requests[2]))
        /\ ((PrimaryNoText /\ pc # "after_v1") => Count(IsGet) = 1)
        /\ (Count(IsV1betaPost) >= 1 =>
               /\ ListAnswered200
               /\ \E i \in DOMAIN ListedModels : IsMatch(ListedModels[i])
               /\ Len(requests) = 3 /\ IsGet(requests[2]) /\ IsV1betaPost(requests[3]))
        /\ Count(IsV1betaPost) <= 1

C4_Witness ==
    IsCli /\ Done /\ PrimaryNoText /\ Count(IsGet) = 1 /\ Count(IsV1betaPost) = 1

\* C5: when the primary call fails and no fallback text is obtained, the run ends
\* with exit status 1 and nothing on standard output; with an empty list or no
\* matching entry no second generateContent call is made.
C5_FailureExit ==
    (IsCli /\ Done /\ PrimaryNoText /\ text = None) =>
        /\ exitStatus = 1
        /\ stdout = <<>>
        /\ ((ListAnswered200 /\ \A i \in DOMAIN ListedModels : ~IsMatch(ListedModels[i]))
              => Count(IsV1betaPost) = 0 /\ Count(IsV1Post) = 1)

C5_Witness ==
    /\ IsCli /\ Done /\ PrimaryNoText /\ text = None
    /\ ListAnswered200 /\ ListedModels # <<>>
    /\ \A i \in DOMAIN ListedModels : ~IsMatch(ListedModels[i])

\* C6: the retry goes to the first entry of the returned list, in list order,
\* whose methods hold "generateContent" and whose name holds "gemini-1.5" or
\* "flash"; earlier entries are skipped, later ones are never used.
C6_FirstMatch ==
    (IsCli /\ ListAnswered200) =>
        /\ (Count(IsV1betaPost) >= 1 =>
              \E i \in DOMAIN ListedModels :
                 /\ IsMatch(ListedModels[i])
                 /\ \A j \in 1..(i - 1) : ~IsMatch(ListedModels[j])
                 /\ requests[3].url = <<"v1beta/">> \o ListedModels[i].name \o <<":generateContent">>)
        /\ ((Done /\ \E i \in DOMAIN ListedModels : IsMatch(ListedModels[i]))
              => Count(IsV1betaPost) = 1)

C6_Witness ==
    /\ IsCli /\ Done /\ ListAnswered200 /\ Count(IsV1betaPost) = 1
    /\ Len(ListedModels) = 2
    /\ ~IsMatch(ListedModels[1])
    /\ "name" \in DOMAIN ListedModels[1]
    /\ IsMatch(ListedModels[2])

\* C7: in both programs a readable prompt file with non-blank content decides the
\* prompt whatever SUMMARY_PROMPT and the style variables say; otherwise a
\* non-blank SUMMARY_PROMPT does; a built-in template is used only when neither
\* gives a prompt.  The prompt is the stripped override, two newlines, the input.
C7_OverridePrecedence ==
    requests # <<>> =>
        /\ SentPrompt = full_prompt
        /\ IF FileOverride
           THEN full_prompt = Strip(fs[NamedPromptFile]) \o <<"\n", "\n">> \o InputText
           ELSE IF EnvOverride
           THEN full_prompt = Strip(env["SUMMARY_PROMPT"]) \o <<"\n", "\n">> \o InputText
           ELSE \E t \in BuiltIns : full_prompt = t \o InputText

C7_Witness ==
    /\ requests # <<>> /\ IsCli /\ FileOverride /\ EnvOverride
    /\ env["PROMPT_STYLE"] = <<"brief">>
    /\ fs[NamedPromptFile] # Strip(fs[NamedPromptFile])

\* C8: a primary 200 response of shape candidates[0].content.parts makes the run
\* write exactly the stripped in-order concatenation of the parts' text fields,
\* exit with status 0, and issue neither the model-list nor a fallback call.
C8_PrimarySuccess ==
    (IsCli /\ PrimaryHasParts) =>
        /\ Len(requests) = 1
        /\ Done => /\ stdout = << Strip(ConcatTexts(r_v1.data.candidates[1].content.parts)) >>
                   /\ exitStatus = 0
                   /\ stderr = <<>>

C8_Witness ==
    /\ IsCli /\ Done /\ PrimaryHasParts
    /\ LET ps == r_v1.data.candidates[1].content.parts
       IN  /\ Len(ps) = 2
           /\ "text" \notin DOMAIN ps[1]
           /\ ps[2] = [text |-> <<"b", "\n">>]
    /\ stdout = << <<"b">> >>

\* C9: every run of gemini_cli that ends with exit status 0 wrote a non-empty
\* response string; a 200 response with no parts or only blank text is no success.
C9_NonEmptyOnSuccess ==
    (IsCli /\ Done /\ exitStatus = 0) => (Len(stdout) = 1 /\ stdout[1] # <<>>)

\* C10: summarize_with_openai sends a single user message exactly when the prompt
\* was built from a custom prompt (prompt file or SUMMARY_PROMPT), and the system
\* message followed by a user message exactly when the default prompt was used.
C10_MessagesFollowPrompt ==
    (ProviderIs(<<"openai">>) /\ requests # <<>>) =>
        LET msgs == requests[1].body
        IN  IF FileOverride \/ EnvOverride
            THEN Len(msgs) = 1 /\ msgs[1].role = "user"
            ELSE /\ Len(msgs) = 2
                 /\ msgs[1] = [role |-> "system", content |-> system_message]
                 /\ msgs[2].role = "user"

====
